---- MODULE Spec2Model ----
(***************************************************************************)
(* Model of flytekit/clis/sdk_in_container/backfill.py: the pure function  *)
(* resolve_backfill_window and the click command `backfill` that calls it  *)
(* and then the remote client.                                             *)
(*                                                                         *)
(* Values.  An optional Python value is a sequence of length at most one:  *)
(* None is <<>> and a present value v is <<v>>.  A datetime is an integer  *)
(* in 0..MaxDate (datetime.min .. datetime.max scaled down), a timedelta   *)
(* is an integer in -MaxWindow..MaxWindow (days).                          *)
(***************************************************************************)
EXTENDS Integers, Sequences, FiniteSets, TLC

\* ---- bounds ----
MaxDate == 3
MaxWindow == 2
MaxEntity == 2

None == <<>>
Some(v) == <<v>>

DateTimes == 0..MaxDate
Durations == (0 - MaxWindow)..MaxWindow
Entities == 1..MaxEntity
OptDateTimes == {None} \cup {Some(d) : d \in DateTimes}
OptDurations == {None} \cup {Some(w) : w \in Durations}

\* ---- Python truth values used by the conditions of lines 24-34 ----
\* bool(x) for x: Optional[datetime]; a datetime object is always true.
bool_datetime(d) == d # None
\* bool(x) for x: Optional[timedelta]; timedelta.__bool__ is (self != timedelta(0)).
bool_timedelta(w) == w # None /\ w # Some(0)

\* ---- messages of the three click.BadParameter raised by the resolver ----
MsgConflict == "Cannot use from-date, to-date and duration. Use any two"
MsgPairs == "One of following pairs are required -> (from-date, to-date) | (from-date, duration) | (to-date, duration)"
MsgWindow == "One of start-date and end-date are needed with duration"

\* outcomes of a call: a returned value or a raised exception
Return(v) == [kind |-> "return", value |-> v]
BadParameter(msg) == [kind |-> "BadParameter", value |-> <<msg>>]
OverflowError == [kind |-> "OverflowError", value |-> <<"date value out of range">>]

\* datetime + timedelta / datetime - timedelta: the result, or OverflowError
\* when it leaves datetime.min..datetime.max
datetime_in_range(x) == x \in DateTimes

\* a TypeError raised by arithmetic on None
TypeError == [kind |-> "TypeError", value |-> <<"unsupported operand type(s)">>]

\* resolve_backfill_window without the check of lines 26-29
resolve_without_pairs_check(from_date, to_date, window) ==
    IF bool_datetime(from_date) /\ bool_datetime(to_date) /\ bool_timedelta(window)
    THEN BadParameter(MsgConflict)
    ELSE IF bool_datetime(from_date) /\ bool_datetime(to_date)
    THEN Return(<<from_date, to_date>>)
    ELSE IF ~bool_timedelta(window)
    THEN BadParameter(MsgWindow)
    ELSE IF bool_datetime(from_date)
    THEN IF datetime_in_range(from_date[1] + window[1])
         THEN Return(<<from_date, Some(from_date[1] + window[1])>>)
         ELSE OverflowError
    ELSE IF to_date = None
    THEN TypeError
    ELSE IF datetime_in_range(to_date[1] - window[1])
         THEN Return(<<Some(to_date[1] - window[1]), to_date>>)
         ELSE OverflowError

\* resolve_backfill_window with line 37 assigning to to_date instead of from_date
resolve_wrong_target(from_date, to_date, window) ==
    IF bool_datetime(from_date) /\ bool_datetime(to_date) /\ bool_timedelta(window)
    THEN BadParameter(MsgConflict)
    ELSE IF ~(bool_datetime(from_date) \/ bool_datetime(to_date))
    THEN BadParameter(MsgPairs)
    ELSE IF bool_datetime(from_date) /\ bool_datetime(to_date)
    THEN Return(<<from_date, to_date>>)
    ELSE IF ~bool_timedelta(window)
    THEN BadParameter(MsgWindow)
    ELSE IF bool_datetime(from_date)
    THEN IF datetime_in_range(from_date[1] + window[1])
         THEN Return(<<from_date, Some(from_date[1] + window[1])>>)
         ELSE OverflowError
    ELSE IF datetime_in_range(to_date[1] - window[1])
         THEN Return(<<from_date, Some(to_date[1] - window[1])>>)
         ELSE OverflowError

\* ---- resolve_backfill_window, branch by branch ----
resolve_backfill_window(from_date, to_date, window) ==
    IF bool_datetime(from_date) /\ bool_datetime(to_date) /\ bool_timedelta(window)
    THEN BadParameter(MsgConflict)
    ELSE IF ~(bool_datetime(from_date) \/ bool_datetime(to_date))
    THEN BadParameter(MsgPairs)
    ELSE IF bool_datetime(from_date) /\ bool_datetime(to_date)
    THEN Return(<<from_date, to_date>>)
    ELSE IF ~bool_timedelta(window)
    THEN BadParameter(MsgWindow)
    ELSE IF bool_datetime(from_date)
    THEN IF datetime_in_range(from_date[1] + window[1])
         THEN Return(<<from_date, Some(from_date[1] + window[1])>>)
         ELSE OverflowError
    ELSE IF datetime_in_range(to_date[1] - window[1])
         THEN Return(<<Some(to_date[1] - window[1]), to_date>>)
         ELSE OverflowError


\* ---- collaborators of the command (flytekit.remote / helpers) ----
\* RemoteClient.launch_backfill(...) -> Entity?: a handle to the registered or
\* launched entity, or an empty result in dry-run mode.
launch_backfill_returns(dry_run) ==
    IF dry_run THEN {None} ELSE {Some(e) : e \in Entities}
\* RemoteClient.generate_console_url(entity) -> string
generate_console_url(entity) == <<"console", entity>>
\* bool(entity) of `if entity:`; a returned handle is a plain object
bool_entity(entity) == entity # None
\* an exception raised by a collaborator call, propagated by the command
RemoteError(op) == [kind |-> "RemoteError", value |-> <<op>>]

\* one call made on the remote side, in order of occurrence
Call(op, args) == [op |-> op, args |-> args]

\* the two status lines written with click.secho(..., fg="green")
NoExecutionLine(url) == [text |-> "No Execution mode: Workflow registered at", console_url |-> url, fg |-> "green"]
ExecutionLine(url) == [text |-> "Execution can be seen at", console_url |-> url, fg |-> "green"]

VARIABLES
    params,       \* the options click parsed: from_date, to_date, backfill_window, dry_run, no_execute
    from_date,    \* local from_date of backfill(), reassigned at line 153
    to_date,      \* local to_date of backfill(), reassigned at line 153
    pc,           \* position of the command
    resolved,     \* None, or Some(outcome of the resolve_backfill_window call)
    remote,       \* TRUE once the remote client is constructed
    entity,       \* None, or the entity launch_backfill returned
    console_url,  \* None, or Some(url) generate_console_url returned
    calls,        \* the remote calls made so far
    stdout,       \* the status lines printed so far
    error         \* None, or Some(exception that ended the invocation)

vars == <<params, from_date, to_date, pc, resolved, remote, entity, console_url, calls, stdout, error>>

Params ==
    [from_date : OptDateTimes, to_date : OptDateTimes, backfill_window : OptDurations,
     dry_run : BOOLEAN, no_execute : BOOLEAN]

\* the command is entered with the parsed options; every option defaults to None / False
Init ==
    /\ params \in Params
    /\ from_date = params.from_date
    /\ to_date = params.to_date
    /\ pc = "resolve_backfill_window"
    /\ resolved = None
    /\ remote = FALSE
    /\ entity = None
    /\ console_url = None
    /\ calls = <<>>
    /\ stdout = <<>>
    /\ error = None

\* an exception leaves backfill(): nothing after the raising statement runs
Raise(exc) ==
    /\ error' = Some(exc)
    /\ pc' = "aborted"

\* line 153 inside a try/except that swallows the resolver's exception
CallResolve_swallow ==
    /\ pc = "resolve_backfill_window"
    /\ LET r == resolve_backfill_window(from_date, to_date, params.backfill_window) IN
        /\ resolved' = Some(r)
        /\ IF r.kind = "return"
           THEN /\ from_date' = r.value[1]
                /\ to_date' = r.value[2]
           ELSE UNCHANGED <<from_date, to_date>>
        /\ pc' = "get_remote"
    /\ UNCHANGED <<params, remote, entity, console_url, calls, stdout, error>>

\* line 153: from_date, to_date = resolve_backfill_window(from_date, to_date, backfill_window)
CallResolve ==
    /\ pc = "resolve_backfill_window"
    /\ LET r == resolve_backfill_window(from_date, to_date, params.backfill_window) IN
        /\ resolved' = Some(r)
        /\ IF r.kind = "return"
           THEN /\ from_date' = r.value[1]
                /\ to_date' = r.value[2]
                /\ pc' = "get_remote"
                /\ UNCHANGED error
           ELSE /\ Raise(r)
                /\ UNCHANGED <<from_date, to_date>>
    /\ UNCHANGED <<params, remote, entity, console_url, calls, stdout>>

\* line 154: remote = get_and_save_remote_with_click_context(ctx, project, domain)
GetRemote ==
    /\ pc = "get_remote"
    /\ remote' = TRUE
    /\ calls' = Append(calls, Call("get_remote", <<>>))
    /\ pc' = "launch_backfill"
    /\ UNCHANGED <<params, from_date, to_date, resolved, entity, console_url, stdout, error>>

\* line 154, the construction raising
GetRemoteRaises ==
    /\ pc = "get_remote"
    /\ calls' = Append(calls, Call("get_remote", <<>>))
    /\ Raise(RemoteError("get_remote"))
    /\ UNCHANGED <<params, from_date, to_date, resolved, remote, entity, console_url, stdout>>

\* lines 155-169: entity = remote.launch_backfill(...); if entity:
LaunchBackfill ==
    /\ pc = "launch_backfill"
    /\ calls' = Append(calls, Call("launch_backfill", <<from_date, to_date, params.dry_run, params.no_execute>>))
    /\ \E e \in launch_backfill_returns(params.dry_run) :
        /\ entity' = e
        /\ pc' = IF bool_entity(e) THEN "generate_console_url" ELSE "done"
    /\ UNCHANGED <<params, from_date, to_date, resolved, remote, console_url, stdout, error>>

\* lines 155-168 inside a retry loop: a failed launch is attempted again
LaunchBackfillRaises_retry ==
    /\ pc = "launch_backfill"
    /\ Len(calls) < 4
    /\ calls' = Append(calls, Call("launch_backfill", <<from_date, to_date, params.dry_run, params.no_execute>>))
    /\ UNCHANGED <<params, from_date, to_date, pc, resolved, remote, entity, console_url, stdout, error>>

\* lines 155-168, the call raising: no try/except around it
LaunchBackfillRaises ==
    /\ pc = "launch_backfill"
    /\ calls' = Append(calls, Call("launch_backfill", <<from_date, to_date, params.dry_run, params.no_execute>>))
    /\ Raise(RemoteError("launch_backfill"))
    /\ UNCHANGED <<params, from_date, to_date, resolved, remote, entity, console_url, stdout>>

\* line 170: console_url = remote.generate_console_url(entity)
GenerateConsoleUrl ==
    /\ pc = "generate_console_url"
    /\ calls' = Append(calls, Call("generate_console_url", <<entity>>))
    /\ console_url' = Some(generate_console_url(entity[1]))
    /\ pc' = "secho"
    /\ UNCHANGED <<params, from_date, to_date, resolved, remote, entity, stdout, error>>

\* line 170, the call raising
GenerateConsoleUrlRaises ==
    /\ pc = "generate_console_url"
    /\ calls' = Append(calls, Call("generate_console_url", <<entity>>))
    /\ Raise(RemoteError("generate_console_url"))
    /\ UNCHANGED <<params, from_date, to_date, resolved, remote, entity, console_url, stdout>>

\* lines 171-174 with the f prefix of the strings missing: the placeholder is printed
Secho_no_fstring ==
    /\ pc = "secho"
    /\ stdout' = Append(stdout, IF params.no_execute
                                THEN NoExecutionLine(<<"{console_url}">>)
                                ELSE ExecutionLine(<<"{console_url}">>))
    /\ pc' = "done"
    /\ UNCHANGED <<params, from_date, to_date, resolved, remote, entity, console_url, calls, error>>

\* lines 171-174: the status line, chosen by no_execute
Secho ==
    /\ pc = "secho"
    /\ stdout' = Append(stdout, IF params.no_execute
                                THEN NoExecutionLine(console_url[1])
                                ELSE ExecutionLine(console_url[1]))
    /\ pc' = "done"
    /\ UNCHANGED <<params, from_date, to_date, resolved, remote, entity, console_url, calls, error>>

Next ==
    \/ CallResolve
    \/ GetRemote
    \/ GetRemoteRaises
    \/ LaunchBackfill
    \/ LaunchBackfillRaises
    \/ GenerateConsoleUrl
    \/ GenerateConsoleUrlRaises
    \/ Secho

Spec == Init /\ [][Next]_vars

TypeOK ==
    /\ params \in Params
    /\ pc \in {"resolve_backfill_window", "get_remote", "launch_backfill",
               "generate_console_url", "secho", "done", "aborted"}
    /\ remote \in BOOLEAN
    /\ Len(stdout) <= 1

\* ---- vocabulary of the properties ----
Present(x) == x # None
BothDates == Present(params.from_date) /\ Present(params.to_date)
NoDate == ~Present(params.from_date) /\ ~Present(params.to_date)
OneDate == Present(params.from_date) # Present(params.to_date)
WindowPresent == Present(params.backfill_window)
\* the resolver has been called and its outcome is known
Called == resolved # None
Outcome == resolved[1]
ConflictingArguments == BadParameter(MsgConflict)
InsufficientArgumentsPairs == BadParameter(MsgPairs)
InsufficientArgumentsWindow == BadParameter(MsgWindow)
\* the outcome kinds the specification names
OutcomeKind(o) ==
    IF o.kind = "return" THEN "success"
    ELSE IF o = ConflictingArguments THEN "ConflictingArguments"
    ELSE IF o = InsufficientArgumentsPairs \/ o = InsufficientArgumentsWindow THEN "InsufficientArguments"
    ELSE o.kind
CallsOf(op) == {i \in DOMAIN calls : calls[i].op = op}

\* C1: with from_date, to_date and window all present (any values, the
\* zero-length window included) the resolver fails with ConflictingArguments
\* and never returns a pair.
C1_AllThreeConflict ==
    (Called /\ BothDates /\ WindowPresent) => Outcome = ConflictingArguments

\* C2: with exactly one boundary date T present and a present window D (zero
\* and negative included) the resolver returns (T, T + D) for from_date = T and
\* (T - D, T) for to_date = T.
C2_OneDateArithmetic ==
    (Called /\ OneDate /\ WindowPresent) =>
        IF Present(params.from_date)
        THEN Outcome = Return(<<params.from_date,
                                Some(params.from_date[1] + params.backfill_window[1])>>)
        ELSE Outcome = Return(<<Some(params.to_date[1] - params.backfill_window[1]),
                                params.to_date>>)

\* C3: with both from_date and to_date absent the resolver fails with the
\* "one of the pairs is required" InsufficientArguments error, window absent or
\* present, and the command aborts with it.
C3_NoDateInsufficient ==
    (Called /\ NoDate) =>
        /\ Outcome = InsufficientArgumentsPairs
        /\ error = Some(InsufficientArgumentsPairs)

C3_Witness ==
    /\ Called /\ NoDate /\ WindowPresent /\ params.backfill_window # Some(0)
    /\ Outcome = InsufficientArgumentsPairs

\* C4: with exactly one boundary date present the resolver fails with the
\* "window is required" error exactly when window is absent; a present window
\* of any value never produces it.
C4_WindowRequiredIffAbsent ==
    (Called /\ OneDate) =>
        (Outcome = InsufficientArgumentsWindow <=> ~WindowPresent)

\* C5: a successful resolution with both dates present returns the pair it was
\* given unchanged, and happens only when window is absent.
C5_BothDatesUnchanged ==
    (Called /\ BothDates /\ Outcome.kind = "return") =>
        /\ Outcome.value = <<params.from_date, params.to_date>>
        /\ ~WindowPresent

\* C6: unless the resolver has returned a pair, the remote client is not
\* constructed and no remote call has been made; a failed resolution aborts
\* the invocation.
C6_NoRemoteWithoutResolution ==
    (~Called \/ Outcome.kind # "return") =>
        /\ ~remote
        /\ calls = <<>>
        /\ entity = None /\ console_url = None /\ stdout = <<>>
        /\ Called => (pc = "aborted" /\ error = resolved)

C6_Witness ==
    /\ pc = "aborted" /\ Called /\ Outcome.kind = "BadParameter"
    /\ ~remote /\ calls = <<>>

\* C7 as stated: every invocation that completes without error, whatever
\* dry_run and no_execute are, has printed a status line with the console URL
\* of the returned entity.
C7_AlwaysPrintsUrl ==
    pc = "done" =>
        /\ Len(stdout) = 1
        /\ Present(console_url)
        /\ stdout[1].console_url = console_url[1]

\* C7 amended: an invocation that completes without error has printed exactly
\* one status line, holding the console URL generated for the returned entity,
\* when launch_backfill returned a non-empty entity, and has printed nothing
\* and generated no URL when launch_backfill returned an empty result.
C7_PrintsUrlIffEntity ==
    pc = "done" =>
        IF bool_entity(entity)
        THEN /\ Len(stdout) = 1
             /\ console_url = Some(generate_console_url(entity[1]))
             /\ stdout[1].console_url = console_url[1]
             /\ calls[Len(calls)] = Call("generate_console_url", <<entity>>)
        ELSE /\ stdout = <<>>
             /\ console_url = None
             /\ CallsOf("generate_console_url") = {}

C7_Witness ==
    /\ pc = "done" /\ bool_entity(entity) /\ Len(stdout) = 1
    /\ stdout[1].console_url = generate_console_url(entity[1])

\* C8: launch_backfill is called at most once; a failed call ends the
\* invocation with that failure, with no later call, no console URL and no
\* status line; generate_console_url is called only after launch_backfill
\* returned a non-empty entity, and for that entity.
C8_LaunchOnceNoRetry ==
    /\ Cardinality(CallsOf("launch_backfill")) <= 1
    /\ error = Some(RemoteError("launch_backfill")) =>
        /\ pc = "aborted"
        /\ calls[Len(calls)].op = "launch_backfill"
        /\ CallsOf("generate_console_url") = {}
        /\ console_url = None
        /\ stdout = <<>>
    /\ pc = "aborted" => ~ENABLED Next
    /\ \A i \in CallsOf("generate_console_url") :
        /\ i > 1 /\ calls[i - 1].op = "launch_backfill"
        /\ bool_entity(entity)
        /\ calls[i].args = <<entity>>

C8_Witness ==
    /\ error = Some(RemoteError("launch_backfill"))
    /\ Cardinality(CallsOf("launch_backfill")) = 1

\* C9: the resolver's outcome is one of success, ConflictingArguments and
\* InsufficientArguments, and which one is fixed by which of the three inputs
\* are present: every other input with the same presence combination has the
\* same outcome kind.
C9_KindByPresenceAlone ==
    Called =>
        /\ OutcomeKind(Outcome) \in {"success", "ConflictingArguments", "InsufficientArguments"}
        /\ \A f \in OptDateTimes, t \in OptDateTimes, w \in OptDurations :
            (/\ Present(f) = Present(params.from_date)
             /\ Present(t) = Present(params.to_date)
             /\ Present(w) = WindowPresent)
            => OutcomeKind(resolve_backfill_window(f, t, w)) = OutcomeKind(Outcome)

\* C10: every launch_backfill call carries a from_date and a to_date that are
\* both present and are the pair the resolver returned for the options the
\* user supplied; every pair the resolver returns has both components present.
C10_LaunchWindowConcrete ==
    /\ \A i \in CallsOf("launch_backfill") :
        /\ Present(calls[i].args[1]) /\ Present(calls[i].args[2])
        /\ Called
        /\ Outcome = Return(<<calls[i].args[1], calls[i].args[2]>>)
        /\ Outcome = resolve_backfill_window(params.from_date, params.to_date, params.backfill_window)
    /\ (Called /\ Outcome.kind = "return") =>
        /\ Present(Outcome.value[1]) /\ Present(Outcome.value[2])
        /\ pc # "resolve_backfill_window"
        /\ from_date = Outcome.value[1] /\ to_date = Outcome.value[2]

C10_Witness ==
    /\ CallsOf("launch_backfill") # {}
    /\ ~Present(params.from_date)
    /\ Present(from_date)

====
